---- MODULE Spec2Model ----
(***************************************************************************)
(* The client_certificate criterion of pkg/policy/criteria: GenerateRule   *)
(* and its six condition builders, the fingerprint canonicalizer, and the  *)
(* Rego check emitted for SAN URIs.                                        *)
(*                                                                         *)
(* Text is a sequence of one-character strings; a message produced by      *)
(* fmt.Errorf / errors.New is a sequence of word tokens into which the     *)
(* characters of a %s / %v argument are spliced.                           *)
(***************************************************************************)
EXTENDS Integers, Sequences, FiniteSets, TLC

VARIABLES pc, data, todo, body, order, ret, nextAddr, clientCertificateBaseBody, inp, out

vars == <<pc, data, todo, body, order, ret, nextAddr, clientCertificateBaseBody, inp, out>>

(***************************************************************************)
(* Text helpers                                                            *)
(***************************************************************************)
Digits == {"0", "1", "2", "3", "4", "5", "6", "7", "8", "9"}

LowerHexDigits == Digits \cup {"a", "b", "c", "d", "e", "f"}

UpperHexDigits == Digits \cup {"A", "B", "C", "D", "E", "F"}

Rep(c, n) == [i \in 1..n |-> c]

Range(s) == {s[i] : i \in 1..Len(s)}

RECURSIVE Flatten(_)
Flatten(ss) == IF ss = <<>> THEN <<>> ELSE Head(ss) \o Flatten(Tail(ss))

\* s contains t as a contiguous run of tokens
Contains(s, t) ==
  \E i \in 0..(Len(s) - Len(t)) : \A j \in 1..Len(t) : s[i + j] = t[j]

(***************************************************************************)
(* parser.Value: String | Array | Object                                   *)
(***************************************************************************)
String(s) == [t |-> "String", s |-> s, a |-> <<>>, o |-> <<>>]

Array(a) == [t |-> "Array", s |-> <<>>, a |-> a, o |-> <<>>]

Object(o) == [t |-> "Object", s |-> <<>>, a |-> <<>>, o |-> o]

\* fmt's %T of a parser.Value
TypeName(v) ==
  CASE v.t = "String" -> "parser.String"
    [] v.t = "Array" -> "parser.Array"
    [] v.t = "Object" -> "parser.Object"

Ok(v) == [ok |-> TRUE, val |-> v, msg |-> <<>>]

Err(m) == [ok |-> FALSE, val |-> <<>>, msg |-> m]

(***************************************************************************)
(* canonicalCertFingerprint                                                *)
(***************************************************************************)
ShortLen == 64

LongGroups == 31

GroupLen == 2

\* ^[0-9a-f]{64}$
shortCertFingerprintRE(f) ==
  /\ Len(f) = ShortLen
  /\ \A i \in 1..Len(f) : f[i] \in LowerHexDigits

\* the long pattern with the case of the hex digits ignored
longCertFingerprintREAnyCase(f) ==
  /\ Len(f) = GroupLen + LongGroups * (1 + GroupLen)
  /\ \A i \in 1..Len(f) :
       IF i % (1 + GroupLen) = 0 THEN f[i] = ":"
       ELSE f[i] \in UpperHexDigits \cup LowerHexDigits

\* ^[0-9A-F]{2}(:[0-9A-F]{2}){31}$
longCertFingerprintRE(f) ==
  /\ Len(f) = GroupLen + LongGroups * (1 + GroupLen)
  /\ \A i \in 1..GroupLen : f[i] \in UpperHexDigits
  /\ \A g \in 1..LongGroups :
       /\ f[g * (1 + GroupLen)] = ":"
       /\ \A i \in 1..GroupLen : f[g * (1 + GroupLen) + i] \in UpperHexDigits

LowerOf(c) ==
  CASE c = "A" -> "a" [] c = "B" -> "b" [] c = "C" -> "c" [] c = "D" -> "d"
    [] c = "E" -> "e" [] c = "F" -> "f" [] c = "G" -> "g" [] c = "X" -> "x"
    [] OTHER -> c

ToLower(s) == [i \in 1..Len(s) |-> LowerOf(s[i])]

\* strings.ReplaceAll(s, old, "") for a one-character old
ReplaceAll(s, old) ==
  LET Keep(c) == c # old IN SelectSeq(s, Keep)

\* the keys of every object the model builds, in the order fmt prints a map
SortedKeys ==
  <<"bogus_key", "dns", "email", "fingerprint", "ip", "other_key", "spki_hash", "uri">>

\* fmt's %v of a parser.Value
RECURSIVE Show(_)
Show(v) ==
  CASE v.t = "String" -> v.s
    [] v.t = "Array" ->
         <<"[">> \o Flatten([i \in 1..Len(v.a) |->
                     (IF i = 1 THEN <<>> ELSE <<" ">>) \o Show(v.a[i])]) \o <<"]">>
    [] v.t = "Object" ->
         LET InObj(k) == k \in DOMAIN v.o
             ks == SelectSeq(SortedKeys, InObj) IN
         <<"map[">> \o Flatten([i \in 1..Len(ks) |->
                     (IF i = 1 THEN <<>> ELSE <<" ">>) \o <<ks[i], ":">> \o Show(v.o[ks[i]])])
                  \o <<"]">>

canonicalCertFingerprint(d) ==
  IF d.t # "String"
    THEN Err(<<"certificate", "fingerprint", "must", "be", "a", "string", "(was">>
             \o Show(d) \o <<")">>)
    ELSE LET f == d.s IN
      IF f = <<>>
        THEN Err(<<"certificate", "fingerprint", "must", "not", "be", "empty">>)
      ELSE IF shortCertFingerprintRE(f)
        THEN Ok(f)
      ELSE IF longCertFingerprintRE(f)
        THEN Ok(ToLower(ReplaceAll(f, ":")))
      ELSE Err(<<"unsupported", "certificate", "fingerprint", "format", "(">>
               \o f \o <<")">>)

(***************************************************************************)
(* Library checks used by the other five builders                          *)
(***************************************************************************)
UpperLetters ==
  {"A", "B", "C", "D", "E", "F", "G", "H", "I", "J", "K", "L", "M", "N", "O", "P",
   "Q", "R", "S", "T", "U", "V", "W", "X", "Y", "Z"}

LowerLetters ==
  {"a", "b", "c", "d", "e", "f", "g", "h", "i", "j", "k", "l", "m", "n", "o", "p",
   "q", "r", "s", "t", "u", "v", "w", "x", "y", "z"}

AlphaNum == UpperLetters \cup LowerLetters \cup Digits

\* the pieces of s between occurrences of the one-character separator sep
RECURSIVE Split(_, _)
Split(s, sep) ==
  IF \A i \in 1..Len(s) : s[i] # sep
    THEN <<s>>
    ELSE LET i == CHOOSE j \in 1..Len(s) :
                    s[j] = sep /\ \A k \in 1..(j - 1) : s[k] # sep IN
         <<SubSeq(s, 1, i - 1)>> \o Split(SubSeq(s, i + 1, Len(s)), sep)

HashLen == 32

\* base64.StdEncoding.DecodeString: the decoded length, or -1 for an error
base64DecodedLen(h) ==
  LET NotNewline(c) == c \notin {"\n", "\r"}
      t == SelectSeq(h, NotNewline)
      n == Len(t)
      pad == IF n >= 2 /\ t[n] = "=" /\ t[n - 1] = "=" THEN 2
             ELSE IF n >= 1 /\ t[n] = "=" THEN 1 ELSE 0 IN
  IF n % 4 = 0 /\ \A i \in 1..(n - pad) : t[i] \in AlphaNum \cup {"+", "/"}
    THEN 3 * (n \div 4) - pad
    ELSE -1

AText == AlphaNum \cup {"_", "-", "+"}

AllAtoms(parts) ==
  \A i \in 1..Len(parts) : parts[i] # <<>> /\ Range(parts[i]) \subseteq AText

DotAtom(t) == AllAtoms(Split(t, "."))

AddrSpecParts(parts) ==
  Len(parts) = 2 /\ DotAtom(parts[1]) /\ DotAtom(parts[2])

AddrSpec(t) == AddrSpecParts(Split(t, "@"))

\* mail.ParseAddress: an addr-spec, bare or after a display name in angle brackets
mailParseAddress(s) ==
  \/ AddrSpec(s)
  \/ \E i \in 1..Len(s) :
       /\ s[i] = "<"
       /\ s[Len(s)] = ">"
       /\ Range(SubSeq(s, 1, i - 1)) \subseteq AText \cup {" "}
       /\ AddrSpec(SubSeq(s, i + 1, Len(s) - 1))

MaxLabelTail == 62

AllLabels(parts) ==
  \A i \in 1..Len(parts) :
    /\ parts[i] # <<>>
    /\ parts[i][1] \in AlphaNum \cup {"_"}
    /\ Range(Tail(parts[i])) \subseteq AlphaNum \cup {"_", "-"}
    /\ Len(parts[i]) - 1 <= MaxLabelTail

\* DNSName (from govalidator):
\* ^([a-zA-Z0-9_]{1}[a-zA-Z0-9_-]{0,62}){1}(\.[a-zA-Z0-9_]{1}[a-zA-Z0-9_-]{0,62})*[\._]?$
rxDNSName(s) ==
  \/ AllLabels(Split(s, "."))
  \/ /\ s # <<>>
     /\ s[Len(s)] \in {".", "_"}
     /\ AllLabels(Split(SubSeq(s, 1, Len(s) - 1), "."))

DigitVal(c) ==
  CASE c = "0" -> 0 [] c = "1" -> 1 [] c = "2" -> 2 [] c = "3" -> 3 [] c = "4" -> 4
    [] c = "5" -> 5 [] c = "6" -> 6 [] c = "7" -> 7 [] c = "8" -> 8 [] c = "9" -> 9

RECURSIVE Decimal(_)
Decimal(ds) ==
  IF ds = <<>> THEN 0
  ELSE 10 * Decimal(SubSeq(ds, 1, Len(ds) - 1)) + DigitVal(ds[Len(ds)])

\* the four decimal fields of an IPv4 literal
IPv4Fields(parts) ==
  /\ Len(parts) = 4
  /\ \A i \in 1..4 :
       /\ Len(parts[i]) \in 1..3
       /\ Range(parts[i]) \subseteq Digits
       /\ (Len(parts[i]) > 1 => parts[i][1] # "0")
       /\ Decimal(parts[i]) <= 255

\* the hex groups of an IPv6 literal s, with at most one "::"
IPv6Groups(parts, s) ==
  LET groups == {i \in 1..Len(parts) : parts[i] # <<>>}
      ellipses == {i \in 1..(Len(s) - 1) : s[i] = ":" /\ s[i + 1] = ":"} IN
  /\ Len(parts) >= 2
  /\ \A i \in groups :
       /\ Len(parts[i]) \in 1..4
       /\ Range(parts[i]) \subseteq LowerHexDigits \cup UpperHexDigits
  /\ \/ /\ ellipses = {}
        /\ Cardinality(groups) = Len(parts)
        /\ Len(parts) = 8
     \/ /\ Cardinality(ellipses) = 1
        /\ Cardinality(groups) <= 7
        /\ (s[1] = ":" => s[2] = ":")
        /\ (s[Len(s)] = ":" => s[Len(s) - 1] = ":")

\* net.ParseIP: dotted-decimal IPv4 or colon-hex IPv6
netParseIP(s) == IPv4Fields(Split(s, ".")) \/ IPv6Groups(Split(s, ":"), s)

\* url.Parse fails on a control character, a malformed percent escape,
\* or a missing scheme before a leading colon
urlParse(s) ==
  LET hex == LowerHexDigits \cup UpperHexDigits IN
  /\ \A i \in 1..Len(s) : s[i] \notin {"\n", "\r", "\t"}
  /\ \A i \in 1..Len(s) :
       s[i] = "%" => /\ i + 2 <= Len(s)
                     /\ s[i + 1] \in hex
                     /\ s[i + 2] \in hex
  /\ (s # <<>> => s[1] # ":")

(***************************************************************************)
(* ast terms, statements, expressions and bodies                           *)
(***************************************************************************)
NoTerm == [op |-> "none", name |-> "", idx |-> "", fmt |-> <<>>, fields |-> <<>>]

\* ast.VarTerm(name), and ast.VarTerm(name "[" idx "]")
VarTerm(name, idx) == [NoTerm EXCEPT !.op = "var", !.name = name, !.idx = idx]

\* the right-hand side of a prologue statement, kept as its Rego text
RegoTerm(text) == [NoTerm EXCEPT !.op = "rego", !.name = text]

\* sprintf(fmt, [name[idx].f : f in fields])
SprintfTerm(fmt, name, idx, fields) ==
  [op |-> "sprintf", name |-> name, idx |-> idx, fmt |-> fmt, fields |-> fields]

\* ast.Assign.Expr(var, array literal)
AssignExpr(var, ra) ==
  [kind |-> "Assign", var |-> var, allow |-> ra, lhs |-> NoTerm, rhs |-> NoTerm]

\* var := <rego text>
AssignRego(var, text) ==
  [kind |-> "Assign", var |-> var, allow |-> <<>>, lhs |-> NoTerm, rhs |-> RegoTerm(text)]

\* ast.Equal.Expr(lhs, rhs)
EqualExpr(l, r) ==
  [kind |-> "Equal", var |-> "", allow |-> <<>>, lhs |-> l, rhs |-> r]

\* some var
SomeDecl(var) ==
  [kind |-> "Some", var |-> var, allow |-> <<>>, lhs |-> NoTerm, rhs |-> NoTerm]

\* an *ast.Expr: the address of the expression and the statement stored there
Expr(addr, stmt) == [addr |-> addr, stmt |-> stmt]

\* an ast.Body: a slice, i.e. its backing array and the expressions it holds
Body(arr, elems) == [arr |-> arr, elems |-> elems]

PrologueStmts ==
  << AssignRego("cert",
       "crypto.x509.parse_certificates(trim_space(input.http.client_certificate.leaf))[0]"),
     AssignRego("fingerprint", "crypto.sha256(base64.decode(cert.Raw))"),
     AssignRego("spki_hash",
       "base64.encode(hex.decode(crypto.sha256(base64.decode(cert.RawSubjectPublicKeyInfo))))"),
     AssignRego("san_email_addresses", "cert.EmailAddresses"),
     AssignRego("san_dns_names", "cert.DNSNames"),
     AssignRego("san_ip_addresses", "cert.IPAddresses"),
     AssignRego("san_uris", "cert.URIs") >>

\* an address handed out by the allocator: who allocated it and its number there
Addr(by, n) == [by |-> by, n |-> n]

\* the i-th address after a
Off(a, i) == [a EXCEPT !.n = @ + i]

\* ast.MustParseBody(...) at package initialisation: one array and one expression
\* per statement
MustParseBaseBody ==
  Body(Addr("init", 0), [i \in 1..Len(PrologueStmts) |-> Expr(Addr("init", i), PrologueStmts[i])])

(***************************************************************************)
(* The element loops of the six builders                                   *)
(***************************************************************************)
spkiHashElement(v) ==
  IF v.t # "String"
    THEN Err(<<"certificate", "SPKI", "hash", "must", "be", "a", "string", "(was">>
             \o Show(v) \o <<")">>)
  ELSE IF v.s = <<>>
    THEN Err(<<"certificate", "SPKI", "hash", "must", "not", "be", "empty">>)
  ELSE IF base64DecodedLen(v.s) # HashLen
    THEN Err(<<"certificate", "SPKI", "hash", "must", "be", "a", "base64-encoded",
               "SHA-256", "hash", "(was">> \o v.s \o <<")">>)
  ELSE Ok(v.s)

sanEmailElement(v) ==
  IF v.t # "String"
    THEN Err(<<"certificate", "SAN", "email", "must", "be", "a", "string", "(was">>
             \o Show(v) \o <<")">>)
  ELSE IF ~mailParseAddress(v.s)
    THEN Err(<<"certificate", "SAN", "email", "must", "be", "a", "valid", "email",
               "address", "(was">> \o v.s \o <<")">>)
  ELSE Ok(v.s)

sanDNSElement(v) ==
  IF v.t # "String"
    THEN Err(<<"certificate", "SAN", "dns", "must", "be", "a", "string", "(was">>
             \o Show(v) \o <<")">>)
  ELSE IF ~rxDNSName(v.s)
    THEN Err(<<"certificate", "SAN", "dns", "must", "be", "a", "valid", "DNS", "name",
               "(was">> \o v.s \o <<")">>)
  ELSE Ok(v.s)

sanIPElement(v) ==
  IF v.t # "String"
    THEN Err(<<"certificate", "SAN", "IP", "must", "be", "a", "string", "(was">>
             \o Show(v) \o <<")">>)
  ELSE IF ~netParseIP(v.s)
    THEN Err(<<"certificate", "SAN", "IP", "must", "be", "a", "valid", "IP", "address",
               "(was">> \o v.s \o <<")">>)
  ELSE Ok(v.s)

sanURIElement(v) ==
  IF v.t # "String"
    THEN Err(<<"certificate", "URI", "must", "be", "a", "string", "(was">>
             \o Show(v) \o <<")">>)
  ELSE IF ~urlParse(v.s)
    THEN Err(<<"certificate", "SAN", "URI", "must", "be", "a", "valid", "URI", "(was">>
             \o v.s \o <<")">>)
  ELSE Ok(v.s)

\* the body of the loop `for _, v := range pa` of the builder of condition k
Element(k, v) ==
  CASE k = "fingerprint" -> canonicalCertFingerprint(v)
    [] k = "spki_hash" -> spkiHashElement(v)
    [] k = "email" -> sanEmailElement(v)
    [] k = "dns" -> sanDNSElement(v)
    [] k = "ip" -> sanIPElement(v)
    [] k = "uri" -> sanURIElement(v)

\* a finished or aborted loop: the array built so far and how many elements were examined
LoopResult(ok, msg, ra, seen) == [ok |-> ok, msg |-> msg, ra |-> ra, seen |-> seen]

\* the loop that examines every element and reports the last error it met
RECURSIVE rangeElementsLastError(_, _, _, _)
rangeElementsLastError(k, pa, i, ra) ==
  IF i > Len(pa)
    THEN LoopResult(TRUE, <<>>, ra, Len(pa))
    ELSE LET r == Element(k, pa[i])
             rest == rangeElementsLastError(k, pa, i + 1, Append(ra, r.val)) IN
      IF r.ok THEN rest
      ELSE IF rest.ok THEN LoopResult(FALSE, r.msg, ra, Len(pa))
      ELSE rest

\* the loop that keeps an element only when the array does not hold it yet
RECURSIVE rangeElementsDistinct(_, _, _, _)
rangeElementsDistinct(k, pa, i, ra) ==
  IF i > Len(pa)
    THEN LoopResult(TRUE, <<>>, ra, Len(pa))
    ELSE LET r == Element(k, pa[i]) IN
      IF ~r.ok
        THEN LoopResult(FALSE, r.msg, ra, i)
        ELSE rangeElementsDistinct(k, pa, i + 1,
               IF r.val \in Range(ra) THEN ra ELSE Append(ra, r.val))

\* `for _, v := range pa { ...; if err != nil { return err }; ra = ra.Append(...) }`
\* from element i on
RECURSIVE rangeElements(_, _, _, _)
rangeElements(k, pa, i, ra) ==
  IF i > Len(pa)
    THEN LoopResult(TRUE, <<>>, ra, Len(pa))
    ELSE LET r == Element(k, pa[i]) IN
      IF ~r.ok
        THEN LoopResult(FALSE, r.msg, ra, i)
        ELSE rangeElements(k, pa, i + 1, Append(ra, r.val))

\* what a builder returns and leaves in *body
Built(ok, msg, b, seen) == [ok |-> ok, msg |-> msg, body |-> b, seen |-> seen]

\* the switch at the head of every builder
IsListLike(d) == d.t \in {"Array", "String"}

Coerce(d) == IF d.t = "Array" THEN d.a ELSE <<d>>

\* the tail of addCertFingerprintCondition: return the loop's error, or append to *body
addCertFingerprintConditionAppend(b, r, fresh) ==
  IF ~r.ok THEN Built(FALSE, r.msg, b, r.seen)
  ELSE Built(TRUE, <<>>, Body(b.arr, b.elems \o
               << Expr(fresh, AssignExpr("allowed_fingerprints", r.ra)),
                  Expr(Off(fresh, 1), EqualExpr(VarTerm("fingerprint", ""),
                                              VarTerm("allowed_fingerprints", "_"))) >>), r.seen)

addCertFingerprintCondition(b, d, fresh) ==
  IF ~IsListLike(d)
    THEN Built(FALSE, <<"certificate", "fingerprint", "condition", "expects", "a",
                        "string", "or", "array", "of", "strings">>, b, 0)
    ELSE addCertFingerprintConditionAppend(b, rangeElements("fingerprint", Coerce(d), 1, <<>>), fresh)

\* the tail of addCertSPKIHashCondition: return the loop's error, or append to *body
addCertSPKIHashConditionAppend(b, r, fresh) ==
  IF ~r.ok THEN Built(FALSE, r.msg, b, r.seen)
  ELSE Built(TRUE, <<>>, Body(b.arr, b.elems \o
               << Expr(fresh, AssignExpr("allowed_spki_hashes", r.ra)),
                  Expr(Off(fresh, 1), EqualExpr(VarTerm("spki_hash", ""),
                                              VarTerm("allowed_spki_hashes", "_"))) >>), r.seen)

addCertSPKIHashCondition(b, d, fresh) ==
  IF ~IsListLike(d)
    THEN Built(FALSE, <<"certificate", "SPKI", "hash", "condition", "expects", "a",
                        "string", "or", "array", "of", "strings">>, b, 0)
    ELSE addCertSPKIHashConditionAppend(b, rangeElements("spki_hash", Coerce(d), 1, <<>>), fresh)

\* the tail of addSanEmailCondition: return the loop's error, or append to *body
addSanEmailConditionAppend(b, r, fresh) ==
  IF ~r.ok THEN Built(FALSE, r.msg, b, r.seen)
  ELSE Built(TRUE, <<>>, Body(b.arr, b.elems \o
               << Expr(fresh, AssignExpr("allowed_san_emails", r.ra)),
                  Expr(Off(fresh, 1), EqualExpr(VarTerm("allowed_san_emails", "_"),
                                              VarTerm("san_email_addresses", "_"))) >>), r.seen)

addSanEmailCondition(b, d, fresh) ==
  IF ~IsListLike(d)
    THEN Built(FALSE, <<"certificate", "SAN", "email", "condition", "expects", "a",
                        "string", "or", "array", "of", "strings">>, b, 0)
    ELSE addSanEmailConditionAppend(b, rangeElements("email", Coerce(d), 1, <<>>), fresh)

\* the dns tail with the allow-list misnamed in the constraint
addSanDNSConditionAppendMisnamed(b, r, fresh) ==
  IF ~r.ok THEN Built(FALSE, r.msg, b, r.seen)
  ELSE Built(TRUE, <<>>, Body(b.arr, b.elems \o
               << Expr(fresh, AssignExpr("allowed_san_dns_names", r.ra)),
                  Expr(Off(fresh, 1), EqualExpr(VarTerm("allowed_dns_names", "_"),
                                              VarTerm("san_dns_names", "_"))) >>), r.seen)

\* the tail of addSanDNSCondition: return the loop's error, or append to *body
addSanDNSConditionAppend(b, r, fresh) ==
  IF ~r.ok THEN Built(FALSE, r.msg, b, r.seen)
  ELSE Built(TRUE, <<>>, Body(b.arr, b.elems \o
               << Expr(fresh, AssignExpr("allowed_san_dns_names", r.ra)),
                  Expr(Off(fresh, 1), EqualExpr(VarTerm("allowed_san_dns_names", "_"),
                                              VarTerm("san_dns_names", "_"))) >>), r.seen)

addSanDNSCondition(b, d, fresh) ==
  IF ~IsListLike(d)
    THEN Built(FALSE, <<"certificate", "SAN", "dns", "condition", "expects", "a",
                        "string", "or", "array", "of", "strings">>, b, 0)
    ELSE addSanDNSConditionAppend(b, rangeElements("dns", Coerce(d), 1, <<>>), fresh)

\* the tail of addSanIPCondition: return the loop's error, or append to *body
addSanIPConditionAppend(b, r, fresh) ==
  IF ~r.ok THEN Built(FALSE, r.msg, b, r.seen)
  ELSE Built(TRUE, <<>>, Body(b.arr, b.elems \o
               << Expr(fresh, AssignExpr("allowed_san_ip_addresses", r.ra)),
                  Expr(Off(fresh, 1), EqualExpr(VarTerm("allowed_san_ip_addresses", "_"),
                                              VarTerm("san_ip_addresses", "_"))) >>), r.seen)

addSanIPCondition(b, d, fresh) ==
  IF ~IsListLike(d)
    THEN Built(FALSE, <<"certificate", "SAN", "IP", "condition", "expects", "a",
                        "string", "or", "array", "of", "strings">>, b, 0)
    ELSE addSanIPConditionAppend(b, rangeElements("ip", Coerce(d), 1, <<>>), fresh)

\* the check with the query of the certificate's URI appended to the reconstruction
uriCheckBodyWithQuery(fresh) ==
  << Expr(fresh, SomeDecl("san_uri_index")),
     Expr(Off(fresh, 1),
       EqualExpr(SprintfTerm(<<"%s", ":", "/", "/", "%s", "%s", "?", "%s">>,
                             "san_uris", "san_uri_index",
                             <<"Scheme", "Host", "Path", "RawQuery">>),
                 VarTerm("allowed_san_uris", "_"))) >>

\* ast.MustParseBody(`some san_uri_index; sprintf("%s://%s%s", [...]) == allowed_san_uris[_]`),
\* parsed afresh by every call
uriCheckBody(fresh) ==
  << Expr(fresh, SomeDecl("san_uri_index")),
     Expr(Off(fresh, 1),
       EqualExpr(SprintfTerm(<<"%s", ":", "/", "/", "%s", "%s">>,
                             "san_uris", "san_uri_index", <<"Scheme", "Host", "Path">>),
                 VarTerm("allowed_san_uris", "_"))) >>

\* the tail of addSanURICondition: return the loop's error, or append to *body
addSanURIConditionAppend(b, r, fresh) ==
  IF ~r.ok THEN Built(FALSE, r.msg, b, r.seen)
  ELSE Built(TRUE, <<>>, Body(b.arr, b.elems
               \o <<Expr(fresh, AssignExpr("allowed_san_uris", r.ra))>>
               \o uriCheckBody(Off(fresh, 1))), r.seen)

addSanURICondition(b, d, fresh) ==
  IF ~IsListLike(d)
    THEN Built(FALSE, <<"certificate", "SAN", "URI", "condition", "expects", "a",
                        "string", "or", "array", "of", "strings">>, b, 0)
    ELSE addSanURIConditionAppend(b, rangeElements("uri", Coerce(d), 1, <<>>), fresh)

ConditionKeys == {"fingerprint", "spki_hash", "email", "dns", "ip", "uri"}

\* the switch with a default case that skips a key it does not know
DispatchSkipUnknown(k, b, v, fresh) ==
  CASE k = "fingerprint" -> addCertFingerprintCondition(b, v, fresh)
    [] k = "spki_hash" -> addCertSPKIHashCondition(b, v, fresh)
    [] k = "email" -> addSanEmailCondition(b, v, fresh)
    [] k = "dns" -> addSanDNSCondition(b, v, fresh)
    [] k = "ip" -> addSanIPCondition(b, v, fresh)
    [] k = "uri" -> addSanURICondition(b, v, fresh)
    [] OTHER -> Built(TRUE, <<>>, b, 0)

\* the first Len(PrologueStmts) expressions of b
PrologueOf(b) == Body(b.arr, SubSeq(b.elems, 1, Len(PrologueStmts)))

\* the switch whose builders append to the prologue instead of to the body so far
DispatchOntoPrologue(k, b, v, fresh) ==
  CASE k = "fingerprint" -> addCertFingerprintCondition(PrologueOf(b), v, fresh)
    [] k = "spki_hash" -> addCertSPKIHashCondition(PrologueOf(b), v, fresh)
    [] k = "email" -> addSanEmailCondition(PrologueOf(b), v, fresh)
    [] k = "dns" -> addSanDNSCondition(PrologueOf(b), v, fresh)
    [] k = "ip" -> addSanIPCondition(PrologueOf(b), v, fresh)
    [] k = "uri" -> addSanURICondition(PrologueOf(b), v, fresh)
    [] OTHER -> Built(FALSE, <<"unsupported", "certificate", "matcher", "condition:", k>>,
                      b, 0)

\* the switch k { ... } of GenerateRule
Dispatch(k, b, v, fresh) ==
  CASE k = "fingerprint" -> addCertFingerprintCondition(b, v, fresh)
    [] k = "spki_hash" -> addCertSPKIHashCondition(b, v, fresh)
    [] k = "email" -> addSanEmailCondition(b, v, fresh)
    [] k = "dns" -> addSanDNSCondition(b, v, fresh)
    [] k = "ip" -> addSanIPCondition(b, v, fresh)
    [] k = "uri" -> addSanURICondition(b, v, fresh)
    [] OTHER -> Built(FALSE, <<"unsupported", "certificate", "matcher", "condition:", k>>,
                      b, 0)

(***************************************************************************)
(* GenerateRule, called by concurrent goroutines                           *)
(***************************************************************************)
Procs == {"g1", "g2"}

\* NewCriterionRule(c.g, c.Name(), ReasonClientCertificateOK,
\*                  ReasonClientCertificateUnauthorized, body)
NewCriterionRule(name, pass, fail, b) ==
  [name |-> name, pass |-> pass, fail |-> fail, body |-> b]

Name == "client_certificate"

\* the three values GenerateRule returns; nil is the empty sequence
Return(rule, aux, err) == [rule |-> rule, aux |-> aux, err |-> err]

\* line 45: body := append(ast.Body(nil), clientCertificateBaseBody...)
CopyBase(base, arr) == Body(arr, base.elems)

\* lines 42-45
Enter(p) ==
  /\ pc[p] = "enter"
  /\ body' = [body EXCEPT ![p] = CopyBase(clientCertificateBaseBody, nextAddr[p])]
  /\ nextAddr' = [nextAddr EXCEPT ![p] = Off(@, 1)]
  /\ pc' = [pc EXCEPT ![p] = "object"]
  /\ UNCHANGED <<data, todo, order, ret, clientCertificateBaseBody, inp, out>>

\* what GenerateRule returns for a value that is no object
NotObject(d) ==
  Return(<<>>, <<>>,
         <<<<"expected", "object", "for", "certificate", "matcher,", "got:", TypeName(d)>>>>)

\* lines 47-50
CheckObject(p) ==
  /\ pc[p] = "object"
  /\ IF data[p].t # "Object"
       THEN /\ ret' = [ret EXCEPT ![p] = <<NotObject(data[p])>>]
            /\ pc' = [pc EXCEPT ![p] = "done"]
            /\ todo' = todo
       ELSE /\ todo' = [todo EXCEPT ![p] = DOMAIN data[p].o]
            /\ pc' = [pc EXCEPT ![p] = "range"]
            /\ ret' = ret
  /\ UNCHANGED <<data, body, order, nextAddr, clientCertificateBaseBody, inp, out>>

\* a failing key that hands back the rule built so far along with the error
FailedPartial(r) ==
  Return(<<NewCriterionRule(Name, "ReasonClientCertificateOK",
                            "ReasonClientCertificateUnauthorized", r.body)>>,
         <<>>, <<r.msg>>)

\* what GenerateRule returns when a key fails (lines 72-74)
Failed(r) == Return(<<>>, <<>>, <<r.msg>>)

\* lines 72-75 for key k whose builder returned r
AfterKey(p, k, r) ==
  /\ order' = [order EXCEPT ![p] = Append(@, k)]
  /\ IF ~r.ok
       THEN /\ ret' = [ret EXCEPT ![p] = <<Failed(r)>>]
            /\ pc' = [pc EXCEPT ![p] = "done"]
            /\ UNCHANGED <<todo, body, nextAddr>>
       ELSE /\ body' = [body EXCEPT ![p] = r.body]
            /\ nextAddr' = [nextAddr EXCEPT
                              ![p] = Off(@, Len(r.body.elems) - Len(body[p].elems))]
            /\ todo' = [todo EXCEPT ![p] = @ \ {k}]
            /\ UNCHANGED <<ret, pc>>

\* lines 52-75, one iteration of `for k, v := range obj`; Go picks the next key
RangeStep(p) ==
  /\ pc[p] = "range"
  /\ \E k \in todo[p] :
       AfterKey(p, k, Dispatch(k, body[p], data[p].o[k], nextAddr[p]))
  /\ UNCHANGED <<data, clientCertificateBaseBody, inp, out>>

\* what GenerateRule returns once every key is compiled (lines 77-81)
Compiled(b) ==
  Return(<<NewCriterionRule(Name, "ReasonClientCertificateOK",
                            "ReasonClientCertificateUnauthorized", b)>>,
         <<>>, <<>>)

\* lines 77-81
Wrap(p) ==
  /\ pc[p] = "range"
  /\ todo[p] = {}
  /\ ret' = [ret EXCEPT ![p] = <<Compiled(body[p])>>]
  /\ pc' = [pc EXCEPT ![p] = "done"]
  /\ UNCHANGED <<data, todo, body, order, nextAddr, clientCertificateBaseBody, inp, out>>

(***************************************************************************)
(* Configuration values the goroutines compile                             *)
(***************************************************************************)
shortFingerprint == Rep("a", ShortLen)

longFingerprint ==
  [i \in 1..(GroupLen + LongGroups * (1 + GroupLen)) |->
     IF i % 3 = 0 THEN ":" ELSE IF i % 3 = 1 THEN "B" ELSE "C"]

spkiHash == Rep("A", 43) \o <<"=">>

GoodValue(k) ==
  CASE k = "fingerprint" -> Array(<<String(shortFingerprint), String(longFingerprint)>>)
    [] k = "spki_hash" -> String(spkiHash)
    [] k = "email" -> String(<<"a", "@", "b", ".", "c">>)
    [] k = "dns" -> Array(<<String(<<"a", ".", "b">>)>>)
    [] k = "ip" -> String(<<":", ":", "1">>)
    [] k = "uri" -> String(<<"s", ":", "/", "/", "h", "/", "p">>)

BadValue(k) ==
  CASE k = "fingerprint" -> String(<<"a", "b">>)
    [] k = "spki_hash" -> String(<<>>)
    [] k = "email" -> Array(<<String(<<"a", "@", "b", ".", "c">>), String(<<"a", "b">>)>>)
    [] k = "dns" -> Object(<<>>)
    [] k = "ip" -> String(<<"9", "9", "9", ".", "1", ".", "1", ".", "1">>)
    [] k = "uri" -> Array(<<Array(<<>>)>>)

Values(k) ==
  IF k \in ConditionKeys THEN {GoodValue(k), BadValue(k)}
  ELSE {String(<<"x">>)}

Keys == ConditionKeys \cup {"bogus_key", "other_key"}

MaxKeys == 2

AllValues == UNION {Values(k) : k \in Keys}

Objects ==
  UNION {{Object(o) : o \in {f \in [K -> AllValues] : \A k \in K : f[k] \in Values(k)}}
         : K \in {K \in SUBSET Keys : Cardinality(K) <= MaxKeys}}

ConfigValues == Objects \cup {String(<<"x">>), Array(<<>>)}

\* what the second goroutine may compile besides the first one's value
OtherValues ==
  { Object([k \in {"fingerprint", "uri"} |-> GoodValue(k)]),
    Object([k \in {"bogus_key"} |-> String(<<"x">>)]),
    Array(<<>>) }

NilBody == Body(Addr("nil", 0), <<>>)

Init ==
  /\ pc = [p \in Procs |-> "enter"]
  /\ \E d \in ConfigValues : \E e \in OtherValues \cup {d} :
       data = [p \in Procs |-> IF p = "g1" THEN d ELSE e]
  /\ todo = [p \in Procs |-> {}]
  /\ body = [p \in Procs |-> NilBody]
  /\ order = [p \in Procs |-> <<>>]
  /\ ret = [p \in Procs |-> <<>>]
  /\ nextAddr = [p \in Procs |-> Addr(p, 1)]
  /\ clientCertificateBaseBody = MustParseBaseBody
  /\ inp = <<>>
  /\ out = <<>>

Next ==
  \E p \in Procs :
    \/ Enter(p)
    \/ CheckObject(p)
    \/ RangeStep(p)
    \/ Wrap(p)

Spec == Init /\ [][Next]_vars

(***************************************************************************)
(* Properties of GenerateRule (checked under Spec)                         *)
(***************************************************************************)
Done(p) == pc[p] = "done"

Result(p) == ret[p][1]

Succeeded(p) == Done(p) /\ Result(p).rule # <<>>

ReturnedBody(p) == Result(p).rule[1].body

Stmts(b) == [i \in 1..Len(b.elems) |-> b.elems[i].stmt]

Addrs(b) == {b.elems[i].addr : i \in 1..Len(b.elems)}

Last(q) == q[Len(q)]

\* every element of the coerced value passes the check of condition k
ElementsValid(k, v) ==
  /\ v.t \in {"String", "Array"}
  /\ \A i \in 1..Len(Coerce(v)) : Element(k, Coerce(v)[i]).ok

Compilable(d) ==
  /\ d.t = "Object"
  /\ \A k \in DOMAIN d.o : k \in ConditionKeys /\ ElementsValid(k, d.o[k])

\* C1: GenerateRule returns a rule (and a nil error) exactly when the value is an
\* Object whose keys are all condition keys with valid values; otherwise it returns
\* an error with a nil rule and a nil auxiliary list.
C1_RuleIffCompilable ==
  \A p \in Procs :
    Done(p) =>
      IF Compilable(data[p])
        THEN /\ Result(p).rule # <<>>
             /\ Result(p).err = <<>>
             /\ Len(ReturnedBody(p).elems) >= Len(PrologueStmts) + 2 * Len(order[p])
        ELSE /\ Result(p).rule = <<>>
             /\ Result(p).aux = <<>>
             /\ Result(p).err # <<>>

\* one call failed on its second key, after compiling the first, while the other
\* call returned a rule
C1_Witness ==
  /\ Done("g1") /\ Len(order["g1"]) = 2 /\ Result("g1").rule = <<>>
  /\ Succeeded("g2") /\ Len(order["g2"]) = 2

PrologueFacts ==
  {"fingerprint", "spki_hash", "san_email_addresses", "san_dns_names",
   "san_ip_addresses", "san_uris"}

\* the variable names a term refers to (the wildcard _ is no name)
Names(t) ==
  (IF t.op \in {"var", "sprintf"} THEN {t.name} ELSE {})
    \cup (IF t.idx \in {"", "_"} THEN {} ELSE {t.idx})

\* the allow-list variables assigned an array literal before statement i
AllowBoundBefore(ss, i) ==
  {ss[j].var : j \in {j \in 1..(i - 1) : ss[j].kind = "Assign" /\ ss[j].rhs = NoTerm}}

\* the variables declared by `some` before statement i
SomeDeclaredBefore(ss, i) ==
  {ss[j].var : j \in {j \in 1..(i - 1) : ss[j].kind = "Some"}}

ConstraintNames(st) == Names(st.lhs) \cup Names(st.rhs)

\* C2 as stated: every Constraint of a returned body refers only to prologue facts
\* and to allow-list variables assigned earlier in the body.
C2_Original ==
  \A p \in Procs :
    Succeeded(p) =>
      \A i \in 1..Len(Stmts(ReturnedBody(p))) :
        Stmts(ReturnedBody(p))[i].kind = "Equal" =>
          ConstraintNames(Stmts(ReturnedBody(p))[i])
            \subseteq PrologueFacts \cup AllowBoundBefore(Stmts(ReturnedBody(p)), i)

\* C2 amended: every Constraint of a returned body refers only to prologue facts,
\* to allow-list variables assigned earlier in the body, and to index variables
\* declared by an earlier `some` of the body.
C2_BoundNames ==
  \A p \in Procs :
    Succeeded(p) =>
      \A i \in 1..Len(Stmts(ReturnedBody(p))) :
        Stmts(ReturnedBody(p))[i].kind = "Equal" =>
          /\ ConstraintNames(Stmts(ReturnedBody(p))[i]) # {}
          /\ ConstraintNames(Stmts(ReturnedBody(p))[i])
               \subseteq PrologueFacts
                         \cup AllowBoundBefore(Stmts(ReturnedBody(p)), i)
                         \cup SomeDeclaredBefore(Stmts(ReturnedBody(p)), i)

\* a rule whose body holds the uri check followed by the dns check
C2_Witness ==
  \E p \in Procs : Succeeded(p) /\ order[p] = <<"uri", "dns">>

\* how the messages of the builder of condition k name it
ConditionWords(k) ==
  CASE k = "fingerprint" -> <<"fingerprint">>
    [] k = "spki_hash" -> <<"SPKI", "hash">>
    [] k = "email" -> <<"email">>
    [] k = "dns" -> <<"dns">>
    [] k = "ip" -> <<"IP">>
    [] k = "uri" -> <<"URI">>

UnknownKeys(d) == DOMAIN d.o \ ConditionKeys

UnsupportedMsg(k) == <<"unsupported", "certificate", "matcher", "condition:", k>>

\* C3 as stated: whatever else the object holds, the error names each key of the
\* object that has no builder, and no rule is returned.
C3_Original ==
  \A p \in Procs :
    (Done(p) /\ data[p].t = "Object") =>
      \A u \in UnknownKeys(data[p]) :
        /\ Result(p).rule = <<>>
        /\ Result(p).err # <<>>
        /\ Contains(Result(p).err[1], <<u>>)

\* C3 amended: an object with a key that has no builder yields no rule; the error is
\* the one of the first key to fail in processing order: the unsupported-key error
\* naming that key when it has no builder (always so when every supported key of the
\* object is valid), else the error of that supported key's builder.
C3_UnknownKeyFails ==
  \A p \in Procs :
    (Done(p) /\ data[p].t = "Object" /\ UnknownKeys(data[p]) # {}) =>
      /\ Result(p).rule = <<>>
      /\ Result(p).aux = <<>>
      /\ Result(p).err # <<>>
      /\ order[p] # <<>>
      /\ Last(order[p]) \in DOMAIN data[p].o
      /\ \A i \in 1..(Len(order[p]) - 1) :
           order[p][i] \in ConditionKeys /\ ElementsValid(order[p][i], data[p].o[order[p][i]])
      /\ IF Last(order[p]) \in ConditionKeys
           THEN /\ ~ElementsValid(Last(order[p]), data[p].o[Last(order[p])])
                /\ Contains(Result(p).err[1], ConditionWords(Last(order[p])))
                /\ \A u \in UnknownKeys(data[p]) : Result(p).err # <<UnsupportedMsg(u)>>
           ELSE Result(p).err = <<UnsupportedMsg(Last(order[p]))>>
      /\ (\A k \in DOMAIN data[p].o \cap ConditionKeys : ElementsValid(k, data[p].o[k]))
           => \E u \in UnknownKeys(data[p]) : Result(p).err = <<UnsupportedMsg(u)>>

\* a call that compiled a valid key and then failed on an unsupported one
C3_Witness ==
  \E p \in Procs :
    /\ Done(p)
    /\ Len(order[p]) = 2
    /\ order[p][1] \in ConditionKeys
    /\ order[p][2] \notin ConditionKeys
    /\ Result(p).err = <<UnsupportedMsg(order[p][2])>>

SameResult(a, b) ==
  /\ a.err = b.err
  /\ a.aux = b.aux
  /\ (a.rule = <<>>) = (b.rule = <<>>)
  /\ a.rule # <<>> =>
       /\ Stmts(a.rule[1].body) = Stmts(b.rule[1].body)
       /\ a.rule[1].name = b.rule[1].name
       /\ a.rule[1].pass = b.rule[1].pass
       /\ a.rule[1].fail = b.rule[1].fail

C5_Original ==
  /\ clientCertificateBaseBody = MustParseBaseBody
  /\ \A p \in Procs :
       Succeeded(p) =>
         /\ ReturnedBody(p).arr # clientCertificateBaseBody.arr
         /\ Addrs(ReturnedBody(p)) \cap Addrs(clientCertificateBaseBody) = {}
         /\ \A q \in Procs \ {p} :
              Succeeded(q) =>
                /\ ReturnedBody(p).arr # ReturnedBody(q).arr
                /\ Addrs(ReturnedBody(p)) \cap Addrs(ReturnedBody(q)) = {}

(***************************************************************************)
(* canonicalCertFingerprint on its own (SpecFp)                            *)
(***************************************************************************)
\* no goroutine is compiling
NoCompile ==
  /\ pc = [p \in Procs |-> "off"]
  /\ data = [p \in Procs |-> String(<<>>)]
  /\ todo = [p \in Procs |-> {}]
  /\ body = [p \in Procs |-> NilBody]
  /\ order = [p \in Procs |-> <<>>]
  /\ ret = [p \in Procs |-> <<>>]
  /\ nextAddr = [p \in Procs |-> Addr(p, 1)]
  /\ clientCertificateBaseBody = MustParseBaseBody

compileVars == <<pc, data, todo, body, order, ret, nextAddr, clientCertificateBaseBody>>

FpBases ==
  { shortFingerprint,
    [i \in 1..ShortLen |-> IF i % 2 = 1 THEN "0" ELSE "f"],
    longFingerprint,
    [i \in 1..Len(longFingerprint) |->
       IF i % 3 = 0 THEN ":" ELSE IF i % 3 = 1 THEN "9" ELSE "E"],
    ToLower(longFingerprint) }

FpAlphabet == {"a", "f", "0", "9", "A", "F", "g", "G", ":", " ", "\n"}

FpSlack == 1

FpStrings ==
  UNION {{[b EXCEPT ![i] = c] : i \in {1, 2, 3, 4, Len(b) - 1, Len(b)}, c \in FpAlphabet}
         : b \in FpBases}
  \cup {SubSeq(b, 1, Len(b) - k) : b \in FpBases, k \in 0..FpSlack}
  \cup {b \o Rep(c, k) : b \in FpBases, c \in FpAlphabet, k \in 1..FpSlack}
  \cup {ReplaceAll(b, ":") : b \in FpBases}
  \cup {<<>>}

FpInputs ==
  {String(f) : f \in FpStrings}
  \cup {Array(<<String(shortFingerprint)>>), Object(<<>>),
        Object([k \in {"fingerprint"} |-> String(shortFingerprint)])}

InitFp ==
  /\ NoCompile
  /\ inp \in FpInputs
  /\ out = <<>>

\* f, err := canonicalCertFingerprint(v)
Canonicalize ==
  /\ out = <<>>
  /\ out' = <<canonicalCertFingerprint(inp)>>
  /\ UNCHANGED <<inp, compileVars>>

\* the canonical form is given to canonicalCertFingerprint again
Recanonicalize ==
  /\ out # <<>>
  /\ out[1].ok
  /\ inp' = String(out[1].val)
  /\ out' = <<>>
  /\ UNCHANGED compileVars

NextFp == Canonicalize \/ Recanonicalize

SpecFp == InitFp /\ [][NextFp]_vars

IsShortForm(x) ==
  /\ x.t = "String"
  /\ Len(x.s) = 64
  /\ Range(x.s) \subseteq LowerHexDigits

IsLongForm(x) ==
  /\ x.t = "String"
  /\ Len(x.s) = 95
  /\ \A i \in 1..95 :
       IF i \in {3 * g : g \in 1..31} THEN x.s[i] = ":" ELSE x.s[i] \in UpperHexDigits

\* the k-th hex digit of a long-form fingerprint, lowercased
LongDigit(s, k) == LowerOf(s[k + ((k - 1) \div 2)])

\* C6: a 64-character lowercase hex string is returned unchanged; 32 uppercase hex
\* groups joined by 31 colons are returned without the colons and lowercased, which
\* is also the canonical form of that lowercase string; every other value is an
\* error; every accepted output is 64 lowercase hex characters and canonicalizes
\* to itself.
C6_Canonical ==
  out # <<>> =>
    /\ IsShortForm(inp) => out[1] = Ok(inp.s)
    /\ IsLongForm(inp) =>
         /\ out[1].ok
         /\ out[1].val = [k \in 1..64 |-> LongDigit(inp.s, k)]
         /\ canonicalCertFingerprint(String([k \in 1..64 |-> LongDigit(inp.s, k)])) = out[1]
    /\ (~IsShortForm(inp) /\ ~IsLongForm(inp)) => (~out[1].ok /\ out[1].msg # <<>>)
    /\ out[1].ok =>
         /\ Len(out[1].val) = 64
         /\ Range(out[1].val) \subseteq LowerHexDigits
         /\ canonicalCertFingerprint(String(out[1].val)) = out[1]

\* a long-form fingerprint with digits and letters has been canonicalized
C6_Witness ==
  /\ out # <<>>
  /\ IsLongForm(inp)
  /\ inp.s[1] = "9" /\ inp.s[2] = "E"
  /\ out[1].ok

(***************************************************************************)
(* One condition builder on its own (SpecBuild)                            *)
(***************************************************************************)
NoString == Array(<<>>)

\* the elements tried for condition k: two valid, two invalid, one that is no string
ElementPool(k) ==
  CASE k = "fingerprint" ->
         {String(shortFingerprint), String(longFingerprint), String(<<"a", "b">>),
          String(<<>>), NoString}
    [] k = "spki_hash" ->
         {String(spkiHash), String(Rep("B", 43) \o <<"=">>), String(<<"A", "A", "A", "A">>),
          String(<<>>), NoString}
    [] k = "email" ->
         {String(<<"a", "@", "b", ".", "c">>), String(<<"B", " ", "<", "a", "@", "b", ">">>),
          String(<<"a", "b">>), String(<<>>), NoString}
    [] k = "dns" ->
         {String(<<"a", ".", "b">>), String(<<"a", "_", "b", ".">>), String(<<"-", "a">>),
          String(<<>>), NoString}
    [] k = "ip" ->
         {String(<<":", ":", "1">>), String(<<"1", ".", "2", ".", "3", ".", "4">>),
          String(<<"9", "9", "9", ".", "1", ".", "1", ".", "1">>), String(<<>>), NoString}
    [] k = "uri" ->
         {String(<<"s", ":", "/", "/", "h", "/", "p">>), String(<<>>),
          String(<<":", "x">>), String(<<"%", "z", "z">>), NoString}

MaxElems == 2

SeqsUpTo(S, n) == UNION {[1..m -> S] : m \in 0..n}

BuildValues(k) ==
  {Array(a) : a \in SeqsUpTo(ElementPool(k), MaxElems)}
  \cup {v \in ElementPool(k) : v.t = "String"}
  \cup {Object(<<>>), Object([x \in {"fingerprint"} |-> String(shortFingerprint)])}

BuildInputs == UNION {{[k |-> k, d |-> d] : d \in BuildValues(k)} : k \in ConditionKeys}

\* the body a builder is handed: the prologue, already copied by GenerateRule
PassedBody == CopyBase(MustParseBaseBody, Addr("g1", 0))

InitBuild ==
  /\ NoCompile
  /\ inp \in BuildInputs
  /\ out = <<>>

\* err = add...Condition(&body, v), as GenerateRule calls it for key k
Build ==
  /\ out = <<>>
  /\ out' = <<Dispatch(inp.k, PassedBody, inp.d, Addr("g1", 1))>>
  /\ UNCHANGED <<inp, compileVars>>

NextBuild == Build

SpecBuild == InitBuild /\ [][NextBuild]_vars

\* whether msg tells what shape of value d is
NamesShape(msg, d) ==
  \/ Contains(msg, <<TypeName(d)>>)
  \/ Contains(msg, Show(d))
  \/ d.t = "Object" /\ (Contains(msg, <<"object">>) \/ Contains(msg, <<"map">>))

\* C8 as stated: for a value that is neither a String nor an Array, the builder's
\* error names the condition and the shape of the value it was given.
C8_Original ==
  (out # <<>> /\ inp.d.t \notin {"String", "Array"}) =>
    /\ ~out[1].ok
    /\ Contains(out[1].msg, ConditionWords(inp.k))
    /\ NamesShape(out[1].msg, inp.d)

InvalidAt(k, pa) == {i \in 1..Len(pa) : ~Element(k, pa[i]).ok}

Min(S) == CHOOSE m \in S : \A n \in S : m <= n

\* C9: when the coerced sequence has invalid elements the builder fails with the
\* error of the one of lowest index, which holds that element's text and names the
\* condition; it examines no element after it and leaves the body as it was.
C9_FirstInvalid ==
  (out # <<>> /\ inp.d.t \in {"String", "Array"} /\ InvalidAt(inp.k, Coerce(inp.d)) # {}) =>
    /\ ~out[1].ok
    /\ out[1].msg = Element(inp.k, Coerce(inp.d)[Min(InvalidAt(inp.k, Coerce(inp.d)))]).msg
    /\ Contains(out[1].msg, Show(Coerce(inp.d)[Min(InvalidAt(inp.k, Coerce(inp.d)))]))
    /\ Contains(out[1].msg, ConditionWords(inp.k))
    /\ out[1].seen = Min(InvalidAt(inp.k, Coerce(inp.d)))
    /\ out[1].body = PassedBody

\* a two-element sequence whose elements are both invalid, for different reasons
C9_Witness ==
  /\ out # <<>>
  /\ inp.d.t = "Array"
  /\ Len(inp.d.a) = 2
  /\ InvalidAt(inp.k, inp.d.a) = {1, 2}
  /\ Element(inp.k, inp.d.a[1]).msg # Element(inp.k, inp.d.a[2]).msg
  /\ out[1].seen = 1

\* the statements a builder appended to the body it was handed
Appended(r) ==
  [i \in 1..(Len(r.body.elems) - Len(PassedBody.elems)) |->
     r.body.elems[Len(PassedBody.elems) + i].stmt]

\* the allow-list entry expected for element v of condition k
Canonical(k, v) ==
  IF k = "fingerprint" /\ Len(v.s) # 64
    THEN [j \in 1..64 |-> LongDigit(v.s, j)]
    ELSE v.s

AllowVar(k) ==
  CASE k = "fingerprint" -> "allowed_fingerprints"
    [] k = "spki_hash" -> "allowed_spki_hashes"
    [] k = "email" -> "allowed_san_emails"
    [] k = "dns" -> "allowed_san_dns_names"
    [] k = "ip" -> "allowed_san_ip_addresses"
    [] k = "uri" -> "allowed_san_uris"

FactOf(k) ==
  CASE k = "fingerprint" -> "fingerprint"
    [] k = "spki_hash" -> "spki_hash"
    [] k = "email" -> "san_email_addresses"
    [] k = "dns" -> "san_dns_names"
    [] k = "ip" -> "san_ip_addresses"
    [] k = "uri" -> "san_uris"

\* C10: a successful builder appends exactly one Assignment, first, whose allow-list
\* has one canonical entry per element of the coerced input, in order; the constraint
\* on the condition's fact follows it; a bare string and the one-element sequence
\* holding it append the same statements.
C10_AllowList ==
  (out # <<>> /\ out[1].ok) =>
    /\ SubSeq(out[1].body.elems, 1, Len(PassedBody.elems)) = PassedBody.elems
    /\ Len(Appended(out[1])) >= 2
    /\ {i \in 1..Len(Appended(out[1])) : Appended(out[1])[i].kind = "Assign"} = {1}
    /\ Appended(out[1])[1].var = AllowVar(inp.k)
    /\ Len(Appended(out[1])[1].allow) = Len(Coerce(inp.d))
    /\ \A i \in 1..Len(Coerce(inp.d)) :
         /\ Coerce(inp.d)[i].t = "String"
         /\ Appended(out[1])[1].allow[i] = Canonical(inp.k, Coerce(inp.d)[i])
         /\ inp.k = "fingerprint" =>
              /\ Len(Appended(out[1])[1].allow[i]) = 64
              /\ Range(Appended(out[1])[1].allow[i]) \subseteq LowerHexDigits
    /\ Last(Appended(out[1])).kind = "Equal"
    /\ ConstraintNames(Last(Appended(out[1]))) \ {"san_uri_index"}
         = {FactOf(inp.k), AllowVar(inp.k)}
    /\ inp.d.t = "String" =>
         Appended(Dispatch(inp.k, PassedBody, Array(<<inp.d>>), Addr("g1", 1)))
           = Appended(out[1])

\* the fingerprint builder given a short-form and a long-form fingerprint
C10_Witness ==
  /\ out # <<>>
  /\ inp.k = "fingerprint"
  /\ inp.d = Array(<<String(shortFingerprint), String(longFingerprint)>>)
  /\ out[1].ok
  /\ Len(Appended(out[1])[1].allow) = 2

(***************************************************************************)
(* The SAN URI check, compiled and evaluated (SpecUri)                     *)
(***************************************************************************)
\* the text before and after the first occurrence of sep (strings.Cut)
Before(s, sep) ==
  IF sep \in Range(s)
    THEN SubSeq(s, 1, (CHOOSE i \in 1..Len(s) :
                          s[i] = sep /\ \A j \in 1..(i - 1) : s[j] # sep) - 1)
    ELSE s

After(s, sep) ==
  IF sep \in Range(s)
    THEN SubSeq(s, (CHOOSE i \in 1..Len(s) :
                       s[i] = sep /\ \A j \in 1..(i - 1) : s[j] # sep) + 1, Len(s))
    ELSE <<>>

\* the character a percent escape stands for
Unhex(a, b) ==
  CASE a = "3" /\ b = "F" -> "?"
    [] a = "2" /\ b = "3" -> "#"
    [] a = "2" /\ b = "F" -> "/"
    [] a = "2" /\ b = "0" -> " "

\* url.PathUnescape
RECURSIVE Unescape(_)
Unescape(s) ==
  IF s = <<>> THEN <<>>
  ELSE IF s[1] = "%" THEN <<Unhex(s[2], s[3])>> \o Unescape(SubSeq(s, 4, Len(s)))
  ELSE <<s[1]>> \o Unescape(Tail(s))

\* the part of a URL after its scheme, fragment and query were cut off
ParseRest(scheme, rest, query, frag) ==
  IF rest # <<>> /\ rest[1] # "/"
    THEN [Scheme |-> scheme, Opaque |-> rest, Host |-> <<>>, Path |-> <<>>,
          RawQuery |-> query, Fragment |-> frag]
  ELSE IF Len(rest) >= 2 /\ rest[2] = "/"
    THEN [Scheme |-> scheme, Opaque |-> <<>>,
          Host |-> Before(SubSeq(rest, 3, Len(rest)), "/"),
          Path |-> Unescape(SubSeq(rest, 3 + Len(Before(SubSeq(rest, 3, Len(rest)), "/")),
                                   Len(rest))),
          RawQuery |-> query, Fragment |-> frag]
  ELSE [Scheme |-> scheme, Opaque |-> <<>>, Host |-> <<>>, Path |-> Unescape(rest),
        RawQuery |-> query, Fragment |-> frag]

\* a SAN URI of the certificate as the evaluation sees it: cert.URIs[i], the
\* url.URL parsed from the certificate's text
ParseURI(raw) ==
  ParseRest(ToLower(Before(Before(raw, "#"), ":")),
            Before(After(Before(raw, "#"), ":"), "?"),
            After(After(Before(raw, "#"), ":"), "?"),
            Unescape(After(raw, "#")))

\* Rego's sprintf with %s verbs
RECURSIVE Sprintf(_, _)
Sprintf(fmt, args) ==
  IF fmt = <<>> THEN <<>>
  ELSE IF Head(fmt) = "%s" THEN Head(args) \o Sprintf(Tail(fmt), Tail(args))
  ELSE <<Head(fmt)>> \o Sprintf(Tail(fmt), args)

\* what a name of the body stands for: the array assigned to it, else the fact
Lookup(ss, facts, name) ==
  IF \E j \in 1..Len(ss) : ss[j].kind = "Assign" /\ ss[j].rhs = NoTerm /\ ss[j].var = name
    THEN ss[CHOOSE j \in 1..Len(ss) :
              ss[j].kind = "Assign" /\ ss[j].rhs = NoTerm /\ ss[j].var = name].allow
    ELSE facts[name]

\* the values a term takes over the bindings of its index
TermValues(t, ss, facts) ==
  CASE t.op = "var" /\ t.idx = "" -> {Lookup(ss, facts, t.name)}
    [] t.op = "var" /\ t.idx # "" -> Range(Lookup(ss, facts, t.name))
    [] t.op = "sprintf" ->
         {Sprintf(t.fmt, [f \in 1..Len(t.fields) |-> Lookup(ss, facts, t.name)[i][t.fields[f]]])
            : i \in 1..Len(Lookup(ss, facts, t.name))}

\* the conjunction of the body's constraints, for some binding of its indices
Satisfied(ss, facts) ==
  \A n \in 1..Len(ss) :
    ss[n].kind = "Equal" =>
      TermValues(ss[n].lhs, ss, facts) \cap TermValues(ss[n].rhs, ss, facts) # {}

CertURIPool ==
  { <<"s", ":", "/", "/", "h", "/", "p", "?", "q", "#", "f">>,
    <<"s", ":", "/", "/", "h", "/", "p", "/">>,
    <<"s", ":", "/", "/", "h", "/", "p", "%", "3", "F", "q">>,
    <<"S", ":", "/", "/", "h">>,
    <<"u", ":", "o">> }

EntryPool ==
  { String(<<"s", ":", "/", "/", "h", "/", "p">>),
    String(<<"s", ":", "/", "/", "h", "/", "p", "?", "q">>),
    String(<<"s", ":", "/", "/", "h", "/", "p", "/">>),
    String(<<"s", ":", "/", "/", "h", "/", "p", "#", "f">>),
    String(<<"s", ":", "/", "/", "h">>) }

MaxSans == 2

UriInputs ==
  {[d |-> d, cert |-> c] :
     d \in EntryPool \cup {Array(a) : a \in SeqsUpTo(EntryPool, MaxElems)},
     c \in SeqsUpTo(CertURIPool, MaxSans)}

InitUri ==
  /\ NoCompile
  /\ inp \in UriInputs
  /\ out = <<>>

\* err = addSanURICondition(&body, v)
CompileUri ==
  /\ out = <<>>
  /\ out' = <<addSanURICondition(PassedBody, inp.d, Addr("g1", 1))>>
  /\ UNCHANGED <<inp, compileVars>>

\* the compiled statements are evaluated for a request carrying the certificate
Evaluate ==
  /\ Len(out) = 1
  /\ out[1].ok
  /\ out' = Append(out,
       [sat |-> Satisfied(Appended(out[1]),
                          [san_uris |-> [i \in 1..Len(inp.cert) |-> ParseURI(inp.cert[i])]])])
  /\ UNCHANGED <<inp, compileVars>>

NextUri == CompileUri \/ Evaluate

SpecUri == InitUri /\ [][NextUri]_vars

\* scheme + "://" + host + path of a certificate URI; query and fragment dropped
Reconstruct(raw) ==
  ParseURI(raw).Scheme \o <<":", "/", "/">> \o ParseURI(raw).Host \o ParseURI(raw).Path

Entries == [j \in 1..Len(Coerce(inp.d)) |-> Coerce(inp.d)[j].s]

\* entry j equals the reconstruction of certificate URI i
EntryMatches(j, i) == Entries[j] = Reconstruct(inp.cert[i])

HasQueryOrFragment(e) == "?" \in Range(e) \/ "#" \in Range(e)

\* the allow-list is the configured text, and the check holds exactly when some
\* entry equals the reconstruction of some certificate URI
UriCheckExact ==
  /\ Appended(out[1])[1] = AssignExpr("allowed_san_uris", Entries)
  /\ out[2].sat = (\E j \in 1..Len(Entries) : \E i \in 1..Len(inp.cert) : EntryMatches(j, i))

\* C7 as stated: the allow-list is verbatim and the check holds exactly when an entry
\* equals a reconstruction; so an entry with a query or fragment matches no
\* certificate URI, nor does an entry match a URI from whose reconstruction it
\* differs by a trailing slash.
C7_Original ==
  Len(out) = 2 =>
    /\ UriCheckExact
    /\ \A j \in 1..Len(Entries) : \A i \in 1..Len(inp.cert) :
         /\ HasQueryOrFragment(Entries[j]) => ~EntryMatches(j, i)
         /\ (\/ Entries[j] = Reconstruct(inp.cert[i]) \o <<"/">>
             \/ Entries[j] \o <<"/">> = Reconstruct(inp.cert[i])) => ~EntryMatches(j, i)

\* C7 amended: the allow-list is verbatim and the check holds exactly when an entry
\* equals a reconstruction; the query and fragment of a certificate URI play no
\* part; an entry with a query or fragment matches no certificate URI whose decoded
\* path is free of "?" and "#" (it can match one whose path holds an escaped "?" or
\* "#"); an entry does not match a URI from whose reconstruction it differs by a
\* trailing slash.
C7_UriCheck ==
  Len(out) = 2 =>
    /\ UriCheckExact
    /\ out[2].sat =
         Satisfied(Appended(out[1]),
                   [san_uris |-> [i \in 1..Len(inp.cert) |->
                      [ParseURI(inp.cert[i]) EXCEPT !.RawQuery = <<>>, !.Fragment = <<>>]]])
    /\ \A j \in 1..Len(Entries) : \A i \in 1..Len(inp.cert) :
         /\ (HasQueryOrFragment(Entries[j])
               /\ ~HasQueryOrFragment(ParseURI(inp.cert[i]).Path)) => ~EntryMatches(j, i)
         /\ (\/ Entries[j] = Reconstruct(inp.cert[i]) \o <<"/">>
             \/ Entries[j] \o <<"/">> = Reconstruct(inp.cert[i])) => ~EntryMatches(j, i)
    /\ (\A j \in 1..Len(Entries) : HasQueryOrFragment(Entries[j]))
         /\ (\A i \in 1..Len(inp.cert) : ~HasQueryOrFragment(ParseURI(inp.cert[i]).Path))
         => ~out[2].sat

\* a certificate URI with a query and a fragment satisfies the check of an entry
\* without them, next to an entry with a trailing slash that it does not match
C7_Witness ==
  /\ Len(out) = 2
  /\ inp.cert = << <<"s", ":", "/", "/", "h", "/", "p", "?", "q", "#", "f">> >>
  /\ Entries = << <<"s", ":", "/", "/", "h", "/", "p", "/">>,
                  <<"s", ":", "/", "/", "h", "/", "p">> >>
  /\ out[2].sat

====
